---- MODULE Spec2Model ----
(***************************************************************************)
(* The API-key store of the dev-api-dashboard (lib/apiKeys.ts), the        *)
(* browser storage it persists to, and the tabs that use it: the           *)
(* application bootstrap that seeds the store and the API Keys page that   *)
(* lists it.                                                               *)
(*                                                                         *)
(* Strings are sequences of one-character strings, so that prefixes,       *)
(* split('_'), slice and trim are computed.  A createdAt timestamp is the  *)
(* integer reading of the clock: toISOString() followed by                 *)
(* new Date(..).getTime() gives the same millisecond back.                 *)
(* crypto.randomUUID() is taken to be collision free: its n-th result is   *)
(* a string no earlier call returned.                                      *)
(***************************************************************************)
EXTENDS Integers, Sequences, FiniteSets, TLC

\* ------------------------------------------------------------------ bounds

\* The clock runs from 1 to MaxTime.
MaxTime == 2
\* crypto.randomUUID() is called at most MaxUuid times at run time.
MaxUuid == 4
\* With the API Keys page open the calls stop after MaxPageUuid of them.
MaxPageUuid == 2
\* createApiKey is not called on a collection of MaxKeys records.
MaxKeys == 3
\* The seed document holds NumSeed records (6 in the repository's generator).
NumSeed == 2
\* The random part of a secret given to maskApiKey has at most MaxToken
\* characters (32 in the program).
MaxToken == 5

\* --------------------------------------------------------- program constants

\* maskApiKey returns the placeholder for keys shorter than this.
MinMaskedLength == 8
\* The number of mask characters.
MaskLength == 8
\* The number of trailing characters maskApiKey shows.
VisibleLength == 4
\* generateApiKey keeps the first 32 characters of the stripped UUID.
SecretLength == 32

Tabs == {1, 2}
Environments == {"test", "production"}

\* ------------------------------------------------------------------ strings

RECURSIVE Repeat(_, _)
Repeat(c, n) == IF n = 0 THEN <<>> ELSE <<c>> \o Repeat(c, n - 1)

\* String.prototype.slice(-n): the last n characters, the whole string if shorter.
SliceLast(s, n) == IF Len(s) <= n THEN s ELSE SubSeq(s, Len(s) - n + 1, Len(s))

\* String.prototype.slice(0, n).
SliceFirst(s, n) == IF Len(s) <= n THEN s ELSE SubSeq(s, 1, n)

StartsWith(s, p) == Len(s) >= Len(p) /\ SubSeq(s, 1, Len(p)) = p

\* String.prototype.includes(sub).
Contains(s, sub) ==
    \E i \in 1..(Len(s) - Len(sub) + 1) : SubSeq(s, i, i + Len(sub) - 1) = sub

\* String.prototype.toLowerCase(), on the letters that occur.
LowerOf(c) ==
    CASE c = "A" -> "a" [] c = "F" -> "f" [] c = "K" -> "k" [] c = "S" -> "s"
      [] OTHER -> c
ToLowerCase(s) == [i \in 1..Len(s) |-> LowerOf(s[i])]

\* String.prototype.replace(/-/g, '').
RECURSIVE StripDashes(_)
StripDashes(s) ==
    IF s = <<>> THEN <<>>
    ELSE IF Head(s) = "-" THEN StripDashes(Tail(s))
    ELSE <<Head(s)>> \o StripDashes(Tail(s))

\* String.prototype.split('_'): the segments between underscores.
RECURSIVE Split(_)
Split(s) ==
    IF \A i \in 1..Len(s) : s[i] # "_" THEN <<s>>
    ELSE LET i == CHOOSE k \in 1..Len(s) :
                      s[k] = "_" /\ \A j \in 1..(k - 1) : s[j] # "_"
         IN <<SubSeq(s, 1, i - 1)>> \o Split(SubSeq(s, i + 1, Len(s)))

RECURSIVE TrimStart(_)
TrimStart(s) ==
    IF s # <<>> /\ Head(s) = " " THEN TrimStart(Tail(s)) ELSE s

RECURSIVE TrimEnd(_)
TrimEnd(s) ==
    IF s # <<>> /\ s[Len(s)] = " " THEN TrimEnd(SubSeq(s, 1, Len(s) - 1)) ELSE s

NoTrim(s) == s

\* String.prototype.trim().
Trim(s) == TrimEnd(TrimStart(s))

HexDigits ==
    <<"0", "1", "2", "3", "4", "5", "6", "7", "8", "9", "a", "b", "c", "d", "e", "f">>

\* The n-th string crypto.randomUUID() returns: groups of hexadecimal digits
\* joined by dashes, different for different n.
randomUUID(n) ==
    <<HexDigits[((n \div 16) % 16) + 1], HexDigits[(n % 16) + 1],
      "-", "4", "c", "-", "9", "e">>

\* --------------------------------------------------------------- lib/apiKeys

TestPrefix == <<"s", "k", "_", "d", "e", "m", "o">>
ProductionPrefix == <<"s", "k", "_", "s", "a", "n", "d", "b", "o", "x">>

\* generateApiKey(environment), with uuid the result of its crypto.randomUUID().
generateApiKeyWrongPrefix(environment, uuid) ==
    TestPrefix \o <<"_">> \o SliceFirst(StripDashes(uuid), SecretLength)

generateApiKey(environment, uuid) ==
    LET prefix == IF environment = "test" THEN TestPrefix ELSE ProductionPrefix
        secret == SliceFirst(StripDashes(uuid), SecretLength)
    IN prefix \o <<"_">> \o secret

Mask == Repeat("*", MaskLength)

\* A mask whose placeholder is for keys shorter than the visible length only.
maskApiKeyFromVisibleLength(key) ==
    IF key = <<>> \/ Len(key) < VisibleLength THEN Mask
    ELSE LET parts == Split(key)
         IN IF Len(parts) >= 3
            THEN parts[1] \o <<"_">> \o parts[2] \o <<"_">> \o Mask
                     \o SliceLast(parts[3], VisibleLength)
            ELSE Mask \o SliceLast(key, VisibleLength)

maskApiKeyShowsMore(key) ==
    IF key = <<>> \/ Len(key) < MinMaskedLength THEN Mask
    ELSE LET parts == Split(key)
         IN IF Len(parts) >= 3
            THEN parts[1] \o <<"_">> \o parts[2] \o <<"_">> \o Mask
                     \o SliceLast(parts[3], VisibleLength + 1)
            ELSE Mask \o SliceLast(key, VisibleLength)

\* maskApiKey(key); "*" stands for the mask character.
maskApiKey(key) ==
    IF key = <<>> \/ Len(key) < MinMaskedLength THEN Mask
    ELSE LET parts == Split(key)
         IN IF Len(parts) >= 3
            THEN parts[1] \o <<"_">> \o parts[2] \o <<"_">> \o Mask
                     \o SliceLast(parts[3], VisibleLength)
            ELSE Mask \o SliceLast(key, VisibleLength)


\* The record createApiKey builds, with the two UUIDs it draws.
newApiKey(name, environment, uuid1, uuid2, time) ==
    [id          |-> uuid1,
     name        |-> name,
     key         |-> generateApiKey(environment, uuid2),
     environment |-> environment,
     createdAt   |-> time,
     revoked     |-> FALSE]

\* loadKeys: localStorage.getItem('api_keys') parsed; [] when there is no item
\* or the item is no JSON.  An item that is JSON but no array ("object") is
\* returned as parsed: LoadsArray says whether the value has the array
\* methods, and loadKeys gives its records when it has.
LoadsArray(st) == st.state # "object"
loadKeys(st) == IF st.state = "array" THEN st.keys ELSE <<>>

\* saveKeys(keys) on storage st; writeOk is whether localStorage.setItem
\* succeeds.  The storage afterwards, and whether saveKeys threw.
saveKeysSwallowsError(st, keys, writeOk) ==
    [storage |-> IF writeOk THEN [state |-> "array", keys |-> keys] ELSE st,
     threw   |-> FALSE]

saveKeys(st, keys, writeOk) ==
    [storage |-> IF writeOk THEN [state |-> "array", keys |-> keys] ELSE st,
     threw   |-> ~writeOk]

\* A sort that puts a record in front of the earlier records of its time.
RECURSIVE SortNewestFirstUnstable(_)
SortNewestFirstUnstable(keys) ==
    IF keys = <<>> THEN <<>>
    ELSE LET n      == Len(keys)
             sorted == SortNewestFirstUnstable(SubSeq(keys, 1, n - 1))
             k      == keys[n]
             before == SelectSeq(sorted, LAMBDA r : r.createdAt > k.createdAt)
             after  == SelectSeq(sorted, LAMBDA r : r.createdAt <= k.createdAt)
         IN before \o <<k>> \o after

\* Array.prototype.sort with (a, b) => time(b) - time(a): stable, newest first.
RECURSIVE SortNewestFirst(_)
SortNewestFirst(keys) ==
    IF keys = <<>> THEN <<>>
    ELSE LET n      == Len(keys)
             sorted == SortNewestFirst(SubSeq(keys, 1, n - 1))
             k      == keys[n]
             before == SelectSeq(sorted, LAMBDA r : r.createdAt >= k.createdAt)
             after  == SelectSeq(sorted, LAMBDA r : r.createdAt < k.createdAt)
         IN before \o <<k>> \o after

getApiKeys(st) == SortNewestFirst(loadKeys(st))

\* The index of the first record with this id (keys.find), 0 if there is none.
FindIndex(keys, id) ==
    IF \E i \in 1..Len(keys) : keys[i].id = id
    THEN CHOOSE i \in 1..Len(keys) :
             keys[i].id = id /\ \A j \in 1..(i - 1) : keys[j].id # id
    ELSE 0

\* What a store call leaves and returns: the storage afterwards, the result
\* ("record", "true", "false", "null" or "throw"), the record returned if
\* any, the error thrown if any, and what became of the write if one was
\* attempted.
Outcome(st, result, rec, error, write) ==
    [storage |-> st, result |-> result, rec |-> rec, error |-> error, write |-> write]

WriteLabel(writeOk) == IF writeOk THEN "ok" ELSE "failed"

\* keys.sort, keys.push, keys.find or keys.filter on a value that is no array.
TypeError(st) == Outcome(st, "throw", <<>>, "type_error", "none")

\* A call of getApiKeys(): the list it returns, or the TypeError of keys.sort.
getApiKeysCall(st) ==
    IF LoadsArray(st) THEN Outcome(st, "list", getApiKeys(st), "none", "none")
    ELSE TypeError(st)

\* A create that saves the new record alone, without the stored ones.
createApiKeyOverwrites(st, name, environment, uuid1, uuid2, time, writeOk) ==
    LET trimmedName == Trim(name)
    IN IF trimmedName = <<>>
       THEN Outcome(st, "throw", <<>>, "empty_name", "none")
       ELSE IF ~LoadsArray(st) THEN TypeError(st)
       ELSE LET newKey == newApiKey(trimmedName, environment, uuid1, uuid2, time)
                saved  == saveKeys(st, <<newKey>>, writeOk)
            IN IF saved.threw
               THEN Outcome(saved.storage, "throw", <<>>, "save_failed", WriteLabel(writeOk))
               ELSE Outcome(saved.storage, "record", <<newKey>>, "none", WriteLabel(writeOk))

\* A create that puts the new record first (unshift for push).
createApiKeyPrepends(st, name, environment, uuid1, uuid2, time, writeOk) ==
    LET trimmedName == Trim(name)
    IN IF trimmedName = <<>>
       THEN Outcome(st, "throw", <<>>, "empty_name", "none")
       ELSE LET keys   == loadKeys(st)
                newKey == newApiKey(trimmedName, environment, uuid1, uuid2, time)
                saved  == saveKeys(st, <<newKey>> \o keys, writeOk)
            IN IF saved.threw
               THEN Outcome(saved.storage, "throw", <<>>, "save_failed", WriteLabel(writeOk))
               ELSE Outcome(saved.storage, "record", <<newKey>>, "none", WriteLabel(writeOk))

createApiKey(st, name, environment, uuid1, uuid2, time, writeOk) ==
    LET trimmedName == Trim(name)
    IN IF trimmedName = <<>>
       THEN Outcome(st, "throw", <<>>, "empty_name", "none")
       ELSE IF ~LoadsArray(st) THEN TypeError(st)
       ELSE LET keys   == loadKeys(st)
                newKey == newApiKey(trimmedName, environment, uuid1, uuid2, time)
                saved  == saveKeys(st, Append(keys, newKey), writeOk)
            IN IF saved.threw
               THEN Outcome(saved.storage, "throw", <<>>, "save_failed", WriteLabel(writeOk))
               ELSE Outcome(saved.storage, "record", <<newKey>>, "none", WriteLabel(writeOk))

\* A revoke that stores a revoked record under an id it does not find.
revokeApiKeyRestores(st, id, writeOk) ==
    LET keys == loadKeys(st)
        i    == FindIndex(keys, id)
        next == IF i # 0 THEN [keys EXCEPT ![i] = [keys[i] EXCEPT !.revoked = TRUE]]
                ELSE Append(keys, [id |-> id, name |-> <<>>, key |-> <<>>,
                                   environment |-> "test", createdAt |-> 0,
                                   revoked |-> TRUE])
        saved == saveKeys(st, next, writeOk)
    IN IF ~LoadsArray(st) THEN TypeError(st)
       ELSE IF saved.threw
       THEN Outcome(saved.storage, "throw", <<>>, "save_failed", WriteLabel(writeOk))
       ELSE Outcome(saved.storage, "true", <<>>, "none", WriteLabel(writeOk))

\* A revoke that also moves the creation time.
revokedKeyRestamps(key) ==
    [key EXCEPT !.revoked = TRUE, !.createdAt = key.createdAt + 1]

revokedKeyToggles(key) == [key EXCEPT !.revoked = ~key.revoked]

\* key.revoked = true
revokedKey(key) == [key EXCEPT !.revoked = TRUE]

revokeApiKey(st, id, writeOk) ==
    LET keys == loadKeys(st)
        i    == FindIndex(keys, id)
    IN IF ~LoadsArray(st) THEN TypeError(st)
       ELSE IF i # 0
       THEN LET saved == saveKeys(st, [keys EXCEPT ![i] = revokedKey(keys[i])], writeOk)
            IN IF saved.threw
               THEN Outcome(saved.storage, "throw", <<>>, "save_failed", WriteLabel(writeOk))
               ELSE Outcome(saved.storage, "true", <<>>, "none", WriteLabel(writeOk))
       ELSE Outcome(st, "false", <<>>, "none", "none")

\* A regeneration that keeps the creation time.
regeneratedKeyKeepsTime(key, uuid, time) ==
    [key EXCEPT !.key = generateApiKey(key.environment, uuid),
                !.revoked = FALSE]

\* A regeneration that renames the record and moves it to production.
regeneratedKeyRelabels(key, uuid, time) ==
    [key EXCEPT !.key = generateApiKey("production", uuid),
                !.createdAt = time,
                !.revoked = FALSE,
                !.name = <<"r">>,
                !.environment = "production"]

regeneratedKeyStaysRevoked(key, uuid, time) ==
    [key EXCEPT !.key = generateApiKey(key.environment, uuid),
                !.createdAt = time]

\* The three assignments of regenerateApiKey.
regeneratedKey(key, uuid, time) ==
    [key EXCEPT !.key = generateApiKey(key.environment, uuid),
                !.createdAt = time,
                !.revoked = FALSE]

regenerateApiKeyAppends(st, id, uuid, time, writeOk) ==
    LET keys == loadKeys(st)
        i    == FindIndex(keys, id)
    IN IF i = 0
       THEN Outcome(st, "null", <<>>, "none", "none")
       ELSE LET key   == regeneratedKey(keys[i], uuid, time)
                saved == saveKeys(st, Append(keys, key), writeOk)
            IN IF saved.threw
               THEN Outcome(saved.storage, "throw", <<>>, "save_failed", WriteLabel(writeOk))
               ELSE Outcome(saved.storage, "record", <<key>>, "none", WriteLabel(writeOk))

regenerateApiKey(st, id, uuid, time, writeOk) ==
    LET keys == loadKeys(st)
        i    == FindIndex(keys, id)
    IN IF ~LoadsArray(st) THEN TypeError(st)
       ELSE IF i = 0
       THEN Outcome(st, "null", <<>>, "none", "none")
       ELSE LET key   == regeneratedKey(keys[i], uuid, time)
                saved == saveKeys(st, [keys EXCEPT ![i] = key], writeOk)
            IN IF saved.threw
               THEN Outcome(saved.storage, "throw", <<>>, "save_failed", WriteLabel(writeOk))
               ELSE Outcome(saved.storage, "record", <<key>>, "none", WriteLabel(writeOk))

\* A delete that refuses a record that is not revoked.
deleteApiKeyOnlyRevoked(st, id, writeOk) ==
    LET keys     == loadKeys(st)
        filtered == SelectSeq(keys, LAMBDA k : k.id # id \/ ~k.revoked)
    IN IF Len(filtered) < Len(keys)
       THEN LET saved == saveKeys(st, filtered, writeOk)
            IN IF saved.threw
               THEN Outcome(saved.storage, "throw", <<>>, "save_failed", WriteLabel(writeOk))
               ELSE Outcome(saved.storage, "true", <<>>, "none", WriteLabel(writeOk))
       ELSE Outcome(st, "false", <<>>, "none", "none")

\* A delete that saves the filtered list whether or not it is shorter.
deleteApiKeyAlwaysSaves(st, id, writeOk) ==
    LET keys     == loadKeys(st)
        filtered == SelectSeq(keys, LAMBDA k : k.id # id)
        saved    == saveKeys(st, filtered, writeOk)
    IN IF saved.threw
       THEN Outcome(saved.storage, "throw", <<>>, "save_failed", WriteLabel(writeOk))
       ELSE Outcome(saved.storage, "true", <<>>, "none", WriteLabel(writeOk))

deleteApiKey(st, id, writeOk) ==
    LET keys     == loadKeys(st)
        filtered == SelectSeq(keys, LAMBDA k : k.id # id)
    IN IF ~LoadsArray(st) THEN TypeError(st)
       ELSE IF Len(filtered) < Len(keys)
       THEN LET saved == saveKeys(st, filtered, writeOk)
            IN IF saved.threw
               THEN Outcome(saved.storage, "throw", <<>>, "save_failed", WriteLabel(writeOk))
               ELSE Outcome(saved.storage, "true", <<>>, "none", WriteLabel(writeOk))
       ELSE Outcome(st, "false", <<>>, "none", "none")

\* -------------------------------------------------------------- seed document

\* The records of /data/api-keys.json, written by scripts/generateAllMockData:
\* ids and secrets drawn at build time, both environments, one record revoked,
\* creation times in the past and not in order.
SeedKeys ==
    [i \in 1..NumSeed |->
        LET environment == IF i % 2 = 1 THEN "test" ELSE "production"
        IN [id          |-> randomUUID(128 + 2 * i),
            name        |-> <<"s">>,
            key         |-> generateApiKey(environment, randomUUID(129 + 2 * i)),
            environment |-> environment,
            createdAt   |-> 0 - (i % 2),
            revoked     |-> (i = 1)]]


\* ------------------------------------------------------------------- state

VARIABLES
    storage,     \* the localStorage entry 'api_keys': absent, an array of records,
                 \* or (written from outside) no JSON or JSON that is no array
    now,         \* the clock
    uuidCount,   \* how many UUIDs crypto.randomUUID() has returned
    tab,         \* per tab: its initializeApiKeys is "fetching" or "idle"
    view,        \* per tab: whether the API Keys page is mounted, its allKeys, and
                 \* the createdKey of its create modal
    pending,     \* per tab: a storage event for 'api_keys' is queued for its page
    deletedIds,  \* the ids for which deleteApiKey has returned true
    maskIn,      \* the two strings given to maskApiKey
    maskOut,     \* and the two results
    search,      \* the page's search box: the query, and the rows shown for it
    env,         \* EnvironmentProvider: mode, the stored mode, the sync effect
    auth,        \* AuthProvider: session, the stored session, the expiry timer
    storageAvailable,  \* isStorageAvailable()
    calls        \* the store calls made so far, in the order they ran

vars == <<storage, now, uuidCount, tab, view, pending, deletedIds, maskIn, maskOut, search, env, auth, storageAvailable, calls>>

Absent == [state |-> "absent", keys |-> <<>>]

\* The search box is empty and nothing has been looked for.
NoSearch == [query |-> <<>>, rows |-> <<>>]

\* EnvironmentProvider on a browser that stores no mode: useState(() =>
\* loadMode()) gives DEFAULT_MODE; requested is the argument of the last
\* setMode, "none" when the mode last came from elsewhere; syncPending is
\* whether the effect that depends on mode has yet to run.
DEFAULT_MODE == "test"
EnvAtMount ==
    [mode |-> DEFAULT_MODE, stored |-> "absent", requested |-> "none", syncPending |-> TRUE]

\* AuthProvider with no session: useState(null), no expiry timeout, nothing
\* stored; returned is what the last login() returned.
LoggedOut == [session |-> "none", stored |-> "none", timer |-> FALSE, returned |-> "none"]
\* Values of the entry that the store did not write: text that is no JSON, and
\* JSON that is no array (such as {}).
Invalid == [state |-> "invalid", keys |-> <<>>]
NotArray == [state |-> "object", keys |-> <<>>]
Unmounted == [mounted |-> FALSE, allKeys |-> <<>>, createdKey |-> <<>>]

\* The tabs in which the user opens the API Keys page.
PageTabs == {2}

\* The names typed into the create form.
Names == {<<>>, <<" ", " ">>, <<" ", "a", " ">>}

IdsOf(keys) == {keys[i].id : i \in 1..Len(keys)}

\* The ids a caller can pass: those stored, shown or deleted, and one no
\* record ever had.
CallIds ==
    IdsOf(loadKeys(storage)) \cup deletedIds \cup {randomUUID(0)}
        \cup UNION {IdsOf(view[t].allKeys) : t \in Tabs}

\* A setItem that changes the value sends a storage event to every other tab;
\* it is queued where the API Keys page is mounted and listens.
Notified(t, st) ==
    [u \in Tabs |-> IF u # t /\ view[u].mounted /\ st # storage THEN TRUE ELSE pending[u]]

\* Two tabs have just loaded the application on a browser that never ran it:
\* each initializeApiKeys found no keys and awaits the seed document.
Init ==
    /\ storage = Absent
    /\ now = 1
    /\ uuidCount = 0
    /\ tab = [t \in Tabs |-> "fetching"]
    /\ view = [t \in Tabs |-> Unmounted]
    /\ pending = [t \in Tabs |-> FALSE]
    /\ deletedIds = {}
    /\ maskIn = <<>>
    /\ maskOut = <<>>
    /\ search = NoSearch
    /\ env = EnvAtMount
    /\ auth = LoggedOut
    /\ storageAvailable = TRUE
    /\ calls = <<>>

\* ------------------------------------------------------------------ actions

Tick ==
    /\ now < MaxTime
    /\ now' = now + 1
    /\ UNCHANGED <<storage, uuidCount, tab, view, pending, deletedIds, maskIn, maskOut, search, env, auth, storageAvailable, calls>>

\* initializeApiKeys up to its await: whether it goes on to fetch the seed
\* document.
initializeStarts(st) == ~(Len(loadKeys(st)) > 0)

\* The tab loads (or reloads) the application: main calls initializeApiKeys(),
\* which returns at once or awaits the fetch, and renders a new tree.
LoadApp(t) ==
    /\ tab' = [tab EXCEPT ![t] = IF initializeStarts(storage) THEN "fetching" ELSE "idle"]
    /\ view' = [view EXCEPT ![t] = Unmounted]
    /\ pending' = [pending EXCEPT ![t] = FALSE]
    /\ UNCHANGED <<storage, now, uuidCount, deletedIds, maskIn, maskOut, search, env, auth, storageAvailable, calls>>

\* initializeApiKeys after its await: the storage it leaves (an error of
\* saveKeys is caught and logged).
initializeCompletes(st, responseOk, writeOk) ==
    IF responseOk THEN saveKeys(st, SeedKeys, writeOk).storage ELSE st

\* initializeApiKeys when nothing else runs between its check and its write.
initializeApiKeys(st, responseOk, writeOk) ==
    IF initializeStarts(st) THEN initializeCompletes(st, responseOk, writeOk) ELSE st

FetchDone(t) ==
    /\ tab[t] = "fetching"
    /\ \E responseOk \in BOOLEAN, writeOk \in BOOLEAN :
        LET st == initializeCompletes(storage, responseOk, writeOk)
        IN /\ storage' = st
           /\ pending' = Notified(t, st)
    /\ tab' = [tab EXCEPT ![t] = "idle"]
    /\ UNCHANGED <<now, uuidCount, view, deletedIds, maskIn, maskOut, search, env, auth, storageAvailable, calls>>

CreateApiKey(t) ==
    /\ \E name \in Names, environment \in Environments, writeOk \in BOOLEAN :
        /\ Trim(name) # <<>> =>
               uuidCount + 2 <= MaxUuid /\ Len(loadKeys(storage)) < MaxKeys
        /\ LET o == createApiKey(storage, name, environment, randomUUID(uuidCount + 1),
                                 randomUUID(uuidCount + 2), now, writeOk)
           IN /\ storage' = o.storage
              /\ pending' = Notified(t, o.storage)
              /\ uuidCount' = IF o.error = "empty_name" THEN uuidCount ELSE uuidCount + 2
    /\ UNCHANGED <<now, tab, view, deletedIds, maskIn, maskOut, search, env, auth, storageAvailable, calls>>

RevokeApiKey(t) ==
    /\ \E id \in CallIds, writeOk \in BOOLEAN :
        LET o == revokeApiKey(storage, id, writeOk)
        IN /\ storage' = o.storage
           /\ pending' = Notified(t, o.storage)
    /\ UNCHANGED <<now, uuidCount, tab, view, deletedIds, maskIn, maskOut, search, env, auth, storageAvailable, calls>>

RegenerateApiKey(t) ==
    /\ \E id \in CallIds, writeOk \in BOOLEAN :
        /\ id \in IdsOf(loadKeys(storage)) => uuidCount + 1 <= MaxUuid
        /\ LET o == regenerateApiKey(storage, id, randomUUID(uuidCount + 1), now, writeOk)
           IN /\ storage' = o.storage
              /\ pending' = Notified(t, o.storage)
              /\ uuidCount' = IF o.result = "null" \/ o.error = "type_error"
                               THEN uuidCount ELSE uuidCount + 1
    /\ UNCHANGED <<now, tab, view, deletedIds, maskIn, maskOut, search, env, auth, storageAvailable, calls>>

DeleteApiKey(t) ==
    /\ \E id \in CallIds, writeOk \in BOOLEAN :
        LET o == deleteApiKey(storage, id, writeOk)
        IN /\ storage' = o.storage
           /\ pending' = Notified(t, o.storage)
           /\ deletedIds' = IF o.result = "true" THEN deletedIds \cup {id} ELSE deletedIds
    /\ UNCHANGED <<now, uuidCount, tab, view, maskIn, maskOut, search, env, auth, storageAvailable, calls>>

\* The store and the bootstrap, in every tab.
Next ==
    \/ Tick
    \/ \E t \in Tabs : LoadApp(t)
    \/ \E t \in Tabs : FetchDone(t)
    \/ \E t \in Tabs : CreateApiKey(t)
    \/ \E t \in Tabs : RevokeApiKey(t)
    \/ \E t \in Tabs : RegenerateApiKey(t)
    \/ \E t \in Tabs : DeleteApiKey(t)

Spec == Init /\ [][Next]_vars

\* ------------------------------------------------------------ API Keys page

\* The API Keys page mounts: useMemo computes allKeys.  When getApiKeys()
\* throws, the render fails and React removes the tree (there is no error
\* boundary): the page is not mounted.
MountKeysPage(t) ==
    /\ ~view[t].mounted
    /\ LET o == getApiKeysCall(storage)
       IN view' = [view EXCEPT ![t] = IF o.result = "list"
                                      THEN [mounted |-> TRUE, allKeys |-> o.rec,
                                            createdKey |-> <<>>]
                                      ELSE Unmounted]
    /\ UNCHANGED <<storage, now, uuidCount, tab, pending, deletedIds, maskIn, maskOut, search, env, auth, storageAvailable, calls>>

\* The page unmounts (navigation): its listener is removed.
UnmountKeysPage(t) ==
    /\ view[t].mounted
    /\ view' = [view EXCEPT ![t] = Unmounted]
    /\ pending' = [pending EXCEPT ![t] = FALSE]
    /\ UNCHANGED <<storage, now, uuidCount, tab, deletedIds, maskIn, maskOut, search, env, auth, storageAvailable, calls>>

\* allKeys on a render after the first: useMemo(() => getApiKeys(), [forceUpdate]),
\* where forceUpdate is the setter of useState(0), the same function on every
\* render, so the memoized list is kept.
allKeysOnRerender(cached, st) == cached

\* environmentKeys, which is also filteredKeys while the search box is empty.
environmentKeys(allKeys, mode) ==
    SelectSeq(allKeys, LAMBDA key : key.environment = mode)

\* The table is replaced by EmptyState when filteredKeys is empty.
showsEmptyState(v, mode) == v.mounted /\ environmentKeys(v.allKeys, mode) = <<>>

\* handleKeyUpdate: the counter changes and the page renders again.
handleKeyUpdate(v, st) == [v EXCEPT !.allKeys = allKeysOnRerender(v.allKeys, st)]

\* The browser delivers the storage event to the tab, whose listener calls
\* handleKeyUpdate.
StorageEvent(t) ==
    /\ pending[t]
    /\ view[t].mounted
    /\ pending' = [pending EXCEPT ![t] = FALSE]
    /\ view' = [view EXCEPT ![t] = handleKeyUpdate(view[t], storage)]
    /\ UNCHANGED <<storage, now, uuidCount, tab, deletedIds, maskIn, maskOut, search, env, auth, storageAvailable, calls>>

\* A row of the table is the record as allKeys holds it.  Its menu offers
\* Revoke while apiKey.revoked is false and Delete once it is true; the
\* confirm handlers call the store with apiKey.id and, on success, onUpdate.
\* An error thrown by the store leaves the handler before anything else.
\* What a confirm handler does with the outcome o of its store call: the
\* toast it shows, whether it calls onUpdate, and whether the confirmation
\* dialog is open afterwards.  When the store throws, the handler is left at
\* the call, and the dialog is closed only if the AlertDialogAction button
\* closes it by itself (actionCloses).
rowConfirm(o, actionCloses) ==
    IF o.result = "throw"
    THEN [toast |-> "none", refreshed |-> FALSE, dialogOpen |-> ~actionCloses]
    ELSE IF o.result = "true"
    THEN [toast |-> "success", refreshed |-> TRUE, dialogOpen |-> FALSE]
    ELSE [toast |-> "error", refreshed |-> FALSE, dialogOpen |-> FALSE]

AfterRowCall(t, o) ==
    /\ storage' = o.storage
    /\ pending' = Notified(t, o.storage)
    /\ view' = [view EXCEPT ![t] = IF rowConfirm(o, TRUE).refreshed
                                   THEN handleKeyUpdate(view[t], o.storage)
                                   ELSE view[t]]

handleRevokeConfirm(t) ==
    /\ view[t].mounted
    /\ \E i \in 1..Len(view[t].allKeys), writeOk \in BOOLEAN :
           LET apiKey == view[t].allKeys[i]
           IN /\ ~apiKey.revoked
              /\ AfterRowCall(t, revokeApiKey(storage, apiKey.id, writeOk))
    /\ UNCHANGED <<now, uuidCount, tab, deletedIds, maskIn, maskOut, search, env, auth, storageAvailable, calls>>

handleDeleteConfirm(t) ==
    /\ view[t].mounted
    /\ \E i \in 1..Len(view[t].allKeys), writeOk \in BOOLEAN :
           LET apiKey == view[t].allKeys[i]
               o      == deleteApiKey(storage, apiKey.id, writeOk)
           IN /\ apiKey.revoked
              /\ AfterRowCall(t, o)
              /\ deletedIds' = IF o.result = "true"
                               THEN deletedIds \cup {apiKey.id} ELSE deletedIds
    /\ UNCHANGED <<now, uuidCount, tab, maskIn, maskOut, search, env, auth, storageAvailable, calls>>

\* The create modal's form is submitted in the page's environment mode:
\* createApiKey is called and, when it returns, createdKey holds the name and
\* the secret and the modal shows them; when it throws, the modal shows the
\* error and keeps the form.
handleSubmit(t) ==
    /\ view[t].mounted
    /\ view[t].createdKey = <<>>
    /\ \E name \in Names, mode \in Environments, writeOk \in BOOLEAN :
        /\ Trim(name) # <<>> =>
               uuidCount + 2 <= MaxPageUuid /\ Len(loadKeys(storage)) < MaxKeys
        /\ LET o == createApiKey(storage, name, mode, randomUUID(uuidCount + 1),
                                 randomUUID(uuidCount + 2), now, writeOk)
           IN /\ storage' = o.storage
              /\ pending' = Notified(t, o.storage)
              /\ uuidCount' = IF o.error = "empty_name" THEN uuidCount ELSE uuidCount + 2
              /\ view' = [view EXCEPT ![t].createdKey =
                              IF o.result = "record"
                              THEN <<[name |-> o.rec[1].name, key |-> o.rec[1].key]>>
                              ELSE <<>>]
    /\ UNCHANGED <<now, tab, deletedIds, maskIn, maskOut, search, env, auth, storageAvailable, calls>>

\* The create modal is closed: its state is reset and, when a key had been
\* created, onKeyCreated (the page's handleKeyUpdate) is called.
handleClose(t) ==
    /\ view[t].mounted
    /\ view' = [view EXCEPT ![t] =
                    [(IF view[t].createdKey # <<>>
                      THEN handleKeyUpdate(view[t], storage)
                      ELSE view[t]) EXCEPT !.createdKey = <<>>]]
    /\ UNCHANGED <<storage, now, uuidCount, tab, pending, deletedIds, maskIn, maskOut, search, env, auth, storageAvailable, calls>>

NextPage ==
    \/ Next /\ uuidCount' <= MaxPageUuid
    \/ \E t \in PageTabs : handleSubmit(t)
    \/ \E t \in PageTabs : handleClose(t)
    \/ \E t \in PageTabs : handleRevokeConfirm(t)
    \/ \E t \in PageTabs : handleDeleteConfirm(t)
    \/ \E t \in PageTabs : MountKeysPage(t)
    \/ \E t \in PageTabs : UnmountKeysPage(t)
    \/ \E t \in PageTabs : StorageEvent(t)

\* The store, the bootstrap and the API Keys page.
PageSpec == Init /\ [][NextPage]_vars

\* ------------------------------------------------- writes from outside
\* The entry is written or removed by something other than the store of these
\* tabs (another window, a script, the developer tools); pages that listen are
\* notified.
ExternalWrite ==
    /\ \E st \in {Invalid, NotArray} :
           /\ storage' = st
           /\ pending' = Notified(0, st)
    /\ UNCHANGED <<now, uuidCount, tab, view, deletedIds, maskIn, maskOut, search, env, auth, storageAvailable, calls>>

\* localStorage.removeItem('api_keys')
ExternalRemove ==
    /\ storage' = Absent
    /\ pending' = Notified(0, Absent)
    /\ UNCHANGED <<now, uuidCount, tab, view, deletedIds, maskIn, maskOut, search, env, auth, storageAvailable, calls>>

NextExternal ==
    \/ NextPage
    \/ ExternalWrite
    \/ ExternalRemove

\* The store, the bootstrap and the page, on storage that is also written
\* from outside.
ExternalSpec == Init /\ [][NextExternal]_vars


\* ------------------------------------------------- store calls of two tabs
\* Each tab calls the store; a call runs to its end before the next begins
\* (the store is synchronous) and is recorded with its arguments and result.

MaxCalls == 3

\* The collection after the first initializeApiKeys has seeded it.
Seeded == initializeApiKeys(Absent, TRUE, TRUE)

CallName == <<" ", "a", " ">>

\* The call c (operation and arguments) on storage st.
applyCall(st, c) ==
    CASE c.op = "create" ->
             createApiKey(st, c.name, c.environment, c.uuid1, c.uuid2, c.time, c.writeOk)
      [] c.op = "revoke" -> revokeApiKey(st, c.id, c.writeOk)
      [] c.op = "regenerate" -> regenerateApiKey(st, c.id, c.uuid1, c.time, c.writeOk)
      [] c.op = "delete" -> deleteApiKey(st, c.id, c.writeOk)

\* The calls tab t can make now.
CallsOf(t, op) ==
    {[tab |-> t, op |-> op, id |-> id, name |-> CallName, environment |-> environment,
      uuid1 |-> randomUUID(uuidCount + 1), uuid2 |-> randomUUID(uuidCount + 2),
      time |-> now, writeOk |-> writeOk] :
        id \in IF op = "create" THEN {<<>>} ELSE IdsOf(loadKeys(storage)) \cup deletedIds,
        environment \in IF op = "create" THEN Environments ELSE {"test"},
        writeOk \in BOOLEAN}

UuidsOf(op) == CASE op = "create" -> 2 [] op = "regenerate" -> 1 [] OTHER -> 0

\* What is kept of a call that has run: who made it, the operation, the id of
\* the record it was about (for a create, of the new record), whether it took
\* effect, and the secret it returned.
Ran(c, o) ==
    [c EXCEPT !.id = IF c.op = "create" THEN c.uuid1 ELSE c.id]
        @@ [ok  |-> o.result \in {"record", "true"},
            key |-> IF o.result = "record" THEN o.rec[1].key ELSE <<>>]

StoreCall(t, op) ==
    /\ Len(calls) < MaxCalls
    /\ uuidCount + UuidsOf(op) <= MaxUuid
    /\ op = "create" => Len(loadKeys(storage)) < MaxKeys
    /\ \E c \in CallsOf(t, op) :
           LET o == applyCall(storage, c)
           IN /\ storage' = o.storage
              /\ calls' = Append(calls, Ran(c, o))
              /\ deletedIds' = IF op = "delete" /\ o.result = "true"
                                THEN deletedIds \cup {c.id} ELSE deletedIds
    /\ uuidCount' = uuidCount + UuidsOf(op)
    /\ UNCHANGED <<now, tab, view, pending, maskIn, maskOut, search, env, auth,
                   storageAvailable>>

TabsInit ==
    /\ storage = Seeded
    /\ now = 1
    /\ uuidCount = 0
    /\ tab = [t \in Tabs |-> "idle"]
    /\ view = [t \in Tabs |-> Unmounted]
    /\ pending = [t \in Tabs |-> FALSE]
    /\ deletedIds = {}
    /\ maskIn = <<>>
    /\ maskOut = <<>>
    /\ search = NoSearch
    /\ env = EnvAtMount
    /\ auth = LoggedOut
    /\ storageAvailable = TRUE
    /\ calls = <<>>

NextTabs ==
    \/ \E t \in Tabs : StoreCall(t, "create")
    \/ \E t \in Tabs : StoreCall(t, "revoke")
    \/ \E t \in Tabs : StoreCall(t, "regenerate")
    \/ \E t \in Tabs : StoreCall(t, "delete")

\* Two tabs with the application loaded, making store calls in any order.
TabsSpec == TabsInit /\ [][NextTabs]_vars


\* ------------------------------------------- environment mode and session
\* The two context providers of one tab.  available is isStorageAvailable(),
\* writeOk whether localStorage.setItem succeeds.

EnvironmentModes == {"test", "production"}

loadMode(e, available) ==
    IF ~available THEN DEFAULT_MODE
    ELSE IF e.stored \in EnvironmentModes THEN e.stored
    ELSE DEFAULT_MODE

\* saveMode: the stored value afterwards (its boolean result is only logged).
saveMode(e, mode, available, writeOk) ==
    IF available /\ writeOk THEN mode ELSE e.stored

\* setMode: setModeState(newMode), then saveMode(newMode); a changed mode
\* makes the provider render again and run the effect that depends on mode.
setMode(e, newMode, available, writeOk) ==
    [mode        |-> newMode,
     stored      |-> saveMode(e, newMode, available, writeOk),
     requested   |-> newMode,
     syncPending |-> e.syncPending \/ newMode # e.mode]

\* useEffect(..., [mode]): loadMode() and, when it differs from mode,
\* setModeState(loadedMode), after which the effect runs once more.
syncEffect(e, available) ==
    LET loadedMode == loadMode(e, available)
    IN IF loadedMode # e.mode
       THEN [e EXCEPT !.mode = loadedMode, !.syncPending = TRUE]
       ELSE [e EXCEPT !.syncPending = FALSE]

\* handleStorageChange of the provider, for a new value of the mode entry.
modeStorageChange(e, newValue) ==
    LET next == IF newValue \in EnvironmentModes THEN newValue ELSE DEFAULT_MODE
    IN [mode        |-> next,
        stored      |-> newValue,
        requested   |-> "none",
        syncPending |-> e.syncPending \/ next # e.mode]

SetMode ==
    /\ \E newMode \in EnvironmentModes, writeOk \in BOOLEAN :
           env' = setMode(env, newMode, storageAvailable, writeOk)
    /\ UNCHANGED <<storage, now, uuidCount, tab, view, pending, deletedIds,
                   maskIn, maskOut, search, auth, storageAvailable, calls>>

ToggleMode ==
    /\ \E writeOk \in BOOLEAN :
           env' = setMode(env, IF env.mode = "test" THEN "production" ELSE "test",
                          storageAvailable, writeOk)
    /\ UNCHANGED <<storage, now, uuidCount, tab, view, pending, deletedIds,
                   maskIn, maskOut, search, auth, storageAvailable, calls>>

SyncEffect ==
    /\ env.syncPending
    /\ env' = syncEffect(env, storageAvailable)
    /\ UNCHANGED <<storage, now, uuidCount, tab, view, pending, deletedIds,
                   maskIn, maskOut, search, auth, storageAvailable, calls>>

\* Another tab writes or removes the mode entry and this tab's listener
\* (registered when storage is available) receives the event.
ModeStorageEvent ==
    /\ storageAvailable
    /\ \E newValue \in EnvironmentModes \cup {"absent", "invalid"} :
           /\ newValue # env.stored
           /\ env' = modeStorageChange(env, newValue)
    /\ UNCHANGED <<storage, now, uuidCount, tab, view, pending, deletedIds,
                   maskIn, maskOut, search, auth, storageAvailable, calls>>

\* A login that takes the session whether or not it was saved.
loginIgnoresSave(a, available, writeOk) ==
    [session  |-> "session",
     stored   |-> IF available /\ writeOk THEN "session" ELSE a.stored,
     timer    |-> TRUE,
     returned |-> "true"]

\* login: saveSession(newSession); when saved, setSession and
\* setExpiryTimeout (24 hours ahead, so a timeout is set) and return true;
\* otherwise return false.
login(a, available, writeOk) ==
    IF available /\ writeOk
    THEN [session |-> "session", stored |-> "session", timer |-> TRUE, returned |-> "true"]
    ELSE [a EXCEPT !.returned = "false"]

\* logout: clearExpiryTimeout, clearSession, setSession(null).
logout(a, available) ==
    [a EXCEPT !.session = "none",
              !.stored = IF available THEN "none" ELSE a.stored,
              !.timer = FALSE]

\* handleStorageChange of AuthProvider: the session was removed, or a session
\* that has not expired was written.
sessionStorageChange(a, newValue) ==
    [a EXCEPT !.session = newValue, !.stored = newValue, !.timer = (newValue # "none")]

Login ==
    /\ \E writeOk \in BOOLEAN : auth' = login(auth, storageAvailable, writeOk)
    /\ UNCHANGED <<storage, now, uuidCount, tab, view, pending, deletedIds,
                   maskIn, maskOut, search, env, storageAvailable, calls>>

Logout ==
    /\ auth' = logout(auth, storageAvailable)
    /\ UNCHANGED <<storage, now, uuidCount, tab, view, pending, deletedIds,
                   maskIn, maskOut, search, env, storageAvailable, calls>>

\* The expiry timeout fires: clearSession() and setSession(null).
SessionExpires ==
    /\ auth.timer
    /\ auth' = logout(auth, storageAvailable)
    /\ UNCHANGED <<storage, now, uuidCount, tab, view, pending, deletedIds,
                   maskIn, maskOut, search, env, storageAvailable, calls>>

SessionStorageEvent ==
    /\ storageAvailable
    /\ \E newValue \in {"none", "session"} :
           /\ newValue # auth.stored
           /\ auth' = sessionStorageChange(auth, newValue)
    /\ UNCHANGED <<storage, now, uuidCount, tab, view, pending, deletedIds,
                   maskIn, maskOut, search, env, storageAvailable, calls>>

ContextInit ==
    /\ storage = Absent
    /\ now = 1
    /\ uuidCount = 0
    /\ tab = [t \in Tabs |-> "fetching"]
    /\ view = [t \in Tabs |-> Unmounted]
    /\ pending = [t \in Tabs |-> FALSE]
    /\ deletedIds = {}
    /\ maskIn = <<>>
    /\ maskOut = <<>>
    /\ search = NoSearch
    /\ env = EnvAtMount
    /\ auth = LoggedOut
    /\ storageAvailable \in BOOLEAN
    /\ calls = <<>>

NextContext ==
    \/ SetMode
    \/ ToggleMode
    \/ SyncEffect
    \/ ModeStorageEvent
    \/ Login
    \/ Logout
    \/ SessionExpires
    \/ SessionStorageEvent

\* The environment and the session of one tab, with storage available or not.
ContextSpec == ContextInit /\ [][NextContext]_vars


\* --------------------------------------------------------- maskApiKey inputs

\* The characters of the random part of a secret.
TokenChars == {"0", "f"}

\* Random parts: at least the visible length, at most MaxToken characters.
Tokens == UNION {[1..n -> TokenChars] : n \in VisibleLength..MaxToken}

\* The secrets generateApiKey can return.
ValidSecrets == {generateApiKey(e, u) : e \in Environments, u \in Tokens}

Short == <<"s", "h", "o", "r", "t">>

\* Strings that are no secret: empty, short, without underscore, with one,
\* with a third segment of two characters, and with four segments.
OtherInputs ==
    {<<>>, Short,
     <<"a", "b", "c">>,
     <<"0", "1", "2", "3", "4", "5", "6", "7", "8">>,
     <<"s", "k", "_", "0", "1", "2", "3", "4", "5">>,
     <<"s", "k", "_", "d", "e", "m", "o", "_", "a", "b">>,
     <<"s", "k", "_", "d", "e", "m", "o", "_", "a", "b", "_", "c", "d", "e", "f", "0">>}

MaskInputs == ValidSecrets \cup OtherInputs

MaskInit ==
    /\ storage = Absent
    /\ now = 1
    /\ uuidCount = 0
    /\ tab = [t \in Tabs |-> "fetching"]
    /\ view = [t \in Tabs |-> Unmounted]
    /\ pending = [t \in Tabs |-> FALSE]
    /\ deletedIds = {}
    /\ maskIn \in MaskInputs \X MaskInputs
    /\ maskOut = <<>>
    /\ search = NoSearch
    /\ env = EnvAtMount
    /\ auth = LoggedOut
    /\ storageAvailable = TRUE
    /\ calls = <<>>

\* A page renders two keys: maskApiKey is applied to each.
ApplyMask ==
    /\ maskOut = <<>>
    /\ maskOut' = <<maskApiKey(maskIn[1]), maskApiKey(maskIn[2])>>
    /\ UNCHANGED <<storage, now, uuidCount, tab, view, pending, deletedIds, maskIn,
                 search, env, auth, storageAvailable, calls>>

MaskSpec == MaskInit /\ [][ApplyMask]_vars

\* ------------------------------------------------------------ page search
\* The API Keys page over two collections of one record each, which differ
\* in the secret only (maskIn), with a query typed into the search box.

\* Secrets of one length, as generateApiKey returns them.
SearchSecrets ==
    {generateApiKey(DEFAULT_MODE, u) : u \in {v \in Tokens : Len(v) = MaxToken}}

Queries ==
    {<<>>, <<" ">>, <<"0">>, <<"F">>, <<"a">>, <<"z">>, <<"S", "K">>,
     <<"f", "f", "f", "f">>, <<"_", "0">>}

CollectionOf(secret) ==
    <<[id          |-> randomUUID(1),
       name        |-> <<"A", "b">>,
       key         |-> secret,
       environment |-> DEFAULT_MODE,
       createdAt   |-> 1,
       revoked     |-> FALSE]>>

\* filteredKeys: environmentKeys when the query is blank, otherwise those
\* whose name or key, in lower case, includes the query in lower case.
filteredKeys(envKeys, searchQuery) ==
    IF Trim(searchQuery) = <<>> THEN envKeys
    ELSE LET query == ToLowerCase(searchQuery)
         IN SelectSeq(envKeys,
                      LAMBDA key : \/ Contains(ToLowerCase(key.name), query)
                                   \/ Contains(ToLowerCase(key.key), query))

\* What KeyRow renders of a record: its name, masked key, creation time and
\* status.
KeyRow(apiKey) ==
    [id |-> apiKey.id, name |-> apiKey.name, key |-> maskApiKey(apiKey.key),
     createdAt |-> apiKey.createdAt, revoked |-> apiKey.revoked]

\* The rows of the table for the keys allKeys, the mode and the query.
TableRows(allKeys, mode, searchQuery) ==
    LET shown == filteredKeys(environmentKeys(allKeys, mode), searchQuery)
    IN [i \in 1..Len(shown) |-> KeyRow(shown[i])]

\* The page with the query, over each of the two collections.
Searched(searchQuery) ==
    [query |-> searchQuery,
     rows  |-> <<TableRows(CollectionOf(maskIn[1]), env.mode, searchQuery),
                 TableRows(CollectionOf(maskIn[2]), env.mode, searchQuery)>>]

SearchInit ==
    /\ storage = Absent
    /\ now = 1
    /\ uuidCount = 0
    /\ tab = [t \in Tabs |-> "idle"]
    /\ view = [t \in Tabs |-> Unmounted]
    /\ pending = [t \in Tabs |-> FALSE]
    /\ deletedIds = {}
    /\ maskIn \in SearchSecrets \X SearchSecrets
    /\ maskOut = <<>>
    /\ env = EnvAtMount
    /\ search = Searched(<<>>)
    /\ auth = LoggedOut
    /\ storageAvailable = TRUE
    /\ calls = <<>>

\* onChange of the search box: setSearchQuery, and the table renders again.
setSearchQuery ==
    /\ \E searchQuery \in Queries : search' = Searched(searchQuery)
    /\ UNCHANGED <<storage, now, uuidCount, tab, view, pending, deletedIds, maskIn,
                   maskOut, env, auth, storageAvailable, calls>>

SearchSpec == SearchInit /\ [][setSearchQuery]_vars


\* ------------------------------------------------------------------ claims

SkTest == <<"s", "k", "_", "t", "e", "s", "t", "_">>
SkDemo == <<"s", "k", "_", "d", "e", "m", "o", "_">>
SkSandbox == <<"s", "k", "_", "s", "a", "n", "d", "b", "o", "x", "_">>

SeedIds == {SeedKeys[i].id : i \in 1..NumSeed}
Stored == loadKeys(storage)
IsBlank(s) == \A i \in 1..Len(s) : s[i] = " "

\* C1: once deleteApiKey(id) has returned true, getApiKeys() never returns a
\* record with that id again, whatever store operations and initializations
\* follow in any tab, and another deleteApiKey(id) returns false.
DeleteFinality ==
    \A id \in deletedIds :
        /\ id \notin IdsOf(getApiKeys(storage))
        /\ deleteApiKey(storage, id, TRUE).result = "false"

\* C2: after initialization has seeded an empty collection and all seed
\* records have been deleted, an initialization does not write the seed
\* records again: the collection stays empty.
SeedOnce ==
    (SeedIds \subseteq deletedIds /\ Stored = <<>>)
        => loadKeys(initializeApiKeys(storage, TRUE, TRUE)) = <<>>

\* C3: when the storage event for 'api_keys' is delivered to a tab showing
\* the API Keys page, the key list the page holds afterwards equals the
\* persisted collection (so it contains a key another tab created).
CrossTabReconciliation ==
    [][\A t \in PageTabs :
          StorageEvent(t) => view'[t].allKeys = getApiKeys(storage')]_vars


\* The calls a tab can make in the current state, each with the write failing
\* or not.
CreateCall(name, environment, writeOk) ==
    createApiKey(storage, name, environment, randomUUID(uuidCount + 1),
                 randomUUID(uuidCount + 2), now, writeOk)
RegenerateCall(id, writeOk) ==
    regenerateApiKey(storage, id, randomUUID(uuidCount + 1), now, writeOk)

FailsVisibly(o) ==
    o.write = "failed" => (o.result = "throw" /\ o.rec = <<>> /\ o.storage = storage)

\* C4: when the storage write fails during createApiKey, revokeApiKey,
\* regenerateApiKey or deleteApiKey, the call returns no record and no true
\* but throws, and the persisted collection is as before the call.
PersistenceFailureVisible ==
    /\ \A name \in Names, environment \in Environments :
           FailsVisibly(CreateCall(name, environment, FALSE))
    /\ \A id \in CallIds :
           /\ FailsVisibly(revokeApiKey(storage, id, FALSE))
           /\ FailsVisibly(RegenerateCall(id, FALSE))
           /\ FailsVisibly(deleteApiKey(storage, id, FALSE))

\* A state with records, where each of the four calls attempts a write
\* that fails.
PersistenceFailureWitness ==
    /\ \E name \in Names : CreateCall(name, "test", FALSE).write = "failed"
    /\ \E id \in CallIds :
           /\ revokeApiKey(storage, id, FALSE).write = "failed"
           /\ RegenerateCall(id, FALSE).write = "failed"
           /\ deleteApiKey(storage, id, FALSE).write = "failed"

\* C5: the ids of the records of the persisted collection are pairwise
\* distinct, in both environments together, after any sequence of create,
\* revoke, regenerate, delete and seeding.
UniqueIds ==
    \A i, j \in 1..Len(Stored) : i # j => Stored[i].id # Stored[j].id

\* A seeded record and two created records side by side, of both
\* environments.
UniqueIdsWitness ==
    /\ Len(Stored) >= 3
    /\ \E i, j, k \in 1..Len(Stored) :
           /\ Stored[i].id \in SeedIds
           /\ Stored[j].id \notin SeedIds
           /\ Stored[k].id \notin SeedIds
           /\ j # k
    /\ {Stored[i].environment : i \in 1..Len(Stored)} = Environments

IsValidSecret(s) == s \in ValidSecrets /\ Len(s) >= 12
PrefixOf(s) == IF StartsWith(s, SkDemo) THEN SkDemo ELSE SkSandbox

\* C7: for a valid secret of length at least 12 the result of maskApiKey is
\* the prefix, the mask and the last 4 characters of the secret, so two
\* secrets with the same prefix and the same last 4 characters have the same
\* result; for the empty string and for a short string the result is the
\* bare mask, which does not contain the input.
MaskingSafety ==
    maskOut # <<>> =>
        /\ \A i \in 1..2 :
               IsValidSecret(maskIn[i]) =>
                   maskOut[i] = PrefixOf(maskIn[i]) \o Repeat("*", 8)
                                    \o SliceLast(maskIn[i], 4)
        /\ (/\ IsValidSecret(maskIn[1]) /\ IsValidSecret(maskIn[2])
            /\ PrefixOf(maskIn[1]) = PrefixOf(maskIn[2])
            /\ SliceLast(maskIn[1], 4) = SliceLast(maskIn[2], 4))
               => maskOut[1] = maskOut[2]
        /\ \A i \in 1..2 :
               maskIn[i] \in {<<>>, Short} =>
                   /\ maskOut[i] = Repeat("*", 8)
                   /\ maskIn[i] # <<>> => ~Contains(maskOut[i], maskIn[i])

\* Two different secrets with the same prefix and last 4 characters have
\* been masked.
MaskingSafetyWitness ==
    /\ maskOut # <<>>
    /\ IsValidSecret(maskIn[1]) /\ IsValidSecret(maskIn[2])
    /\ maskIn[1] # maskIn[2]
    /\ PrefixOf(maskIn[1]) = PrefixOf(maskIn[2])
    /\ SliceLast(maskIn[1], 4) = SliceLast(maskIn[2], 4)

\* C8: createApiKey with a name that is empty after trimming throws, returns
\* no record, and leaves the persisted collection unchanged, whether or not
\* the storage can be written; no stored record has a blank name.
EmptyNameRejected ==
    /\ \A name \in Names, environment \in Environments, writeOk \in BOOLEAN :
           IsBlank(name) =>
               LET o == CreateCall(name, environment, writeOk)
               IN o.result = "throw" /\ o.rec = <<>> /\ o.storage = storage
    /\ \A i \in 1..Len(Stored) : ~IsBlank(Stored[i].name)

\* A collection holding a created record, on which a blank name is rejected.
EmptyNameRejectedWitness ==
    /\ \E i \in 1..Len(Stored) : Stored[i].id \notin SeedIds
    /\ \E name \in Names :
           /\ name # <<>> /\ IsBlank(name)
           /\ CreateCall(name, "test", TRUE).error = "empty_name"

\* C9: for the id of a stored record, revokeApiKey(id) called twice in a row,
\* the writes succeeding, returns true both times and the second call leaves
\* the persisted collection as the first left it, the record revoked.
RevokeIdempotence ==
    \A id \in IdsOf(Stored) :
        LET once  == revokeApiKey(storage, id, TRUE)
            twice == revokeApiKey(once.storage, id, TRUE)
            keys  == loadKeys(once.storage)
        IN /\ once.result = "true"
           /\ twice.result = "true"
           /\ twice.storage = once.storage
           /\ keys[FindIndex(keys, id)].revoked

\* A record that was not revoked when created or seeded is revoked.
RevokeIdempotenceWitness ==
    \E i \in 1..Len(Stored) :
        /\ Stored[i].revoked
        /\ Stored[i].id # SeedKeys[1].id

\* C10: for a stored record with revoked = true, regenerateApiKey(id), the
\* write succeeding, returns the record with revoked = false, a secret
\* different from the one before the call and the same environment, and
\* the persisted collection holds the returned record under that id.
RegenerateReactivates ==
    \A i \in 1..Len(Stored) :
        Stored[i].revoked =>
            LET o    == RegenerateCall(Stored[i].id, TRUE)
                keys == loadKeys(o.storage)
            IN /\ o.result = "record"
               /\ o.rec[1].revoked = FALSE
               /\ o.rec[1].key # Stored[i].key
               /\ o.rec[1].environment = Stored[i].environment
               /\ o.rec[1].id = Stored[i].id
               /\ keys[i] = o.rec[1]

\* The seed record that is revoked in the seed document has been regenerated:
\* it is stored, not revoked, with a creation time of the running clock.
RegenerateReactivatesWitness ==
    \E i \in 1..Len(Stored) :
        /\ Stored[i].id = SeedKeys[1].id
        /\ ~Stored[i].revoked
        /\ Stored[i].createdAt >= 1


\* C11: getApiKeys() returns the persisted records, each once, with createdAt
\* descending, and records of equal createdAt in the order they have in the
\* persisted collection.
Ordering ==
    LET list == getApiKeys(storage)
    IN /\ Len(list) = Len(Stored)
       /\ \A i \in 1..Len(Stored) : \E j \in 1..Len(list) : list[j] = Stored[i]
       /\ \A i, j \in 1..Len(list) :
              i < j =>
                  /\ list[i].createdAt >= list[j].createdAt
                  /\ list[i].createdAt = list[j].createdAt =>
                         FindIndex(Stored, list[i].id) < FindIndex(Stored, list[j].id)

\* Three records or more, two of them of the same time, stored in an order
\* that is not the one getApiKeys() returns.
OrderingWitness ==
    /\ Len(Stored) >= 3
    /\ \E i, j \in 1..Len(Stored) :
           i # j /\ Stored[i].createdAt = Stored[j].createdAt
    /\ getApiKeys(storage) # Stored


\* The ids a caller can pass that no persisted record has.
MissingIds == CallIds \ IdsOf(Stored)

\* C12: revokeApiKey, regenerateApiKey and deleteApiKey called with an id that
\* no persisted record has return false, null and false, throw nothing and
\* attempt no write (so it does not matter whether storage can be written),
\* and the persisted collection is as before.
NotFoundSignalling ==
    \A id \in MissingIds, writeOk \in BOOLEAN :
        LET r == revokeApiKey(storage, id, writeOk)
            g == RegenerateCall(id, writeOk)
            d == deleteApiKey(storage, id, writeOk)
        IN /\ r.result = "false" /\ g.result = "null" /\ d.result = "false"
           /\ \A o \in {r, g, d} :
                  o.error = "none" /\ o.write = "none" /\ o.storage = storage

\* Records are stored, and the id of a record deleted earlier is passed.
NotFoundSignallingWitness ==
    /\ Stored # <<>>
    /\ \E id \in deletedIds : id \in MissingIds


\* C13: when the value stored under api_keys is no JSON, or JSON that is no
\* array, every store operation treats the collection as empty and none
\* throws: getApiKeys returns [], createApiKey stores the new record alone,
\* revokeApiKey, regenerateApiKey and deleteApiKey report not found.
MalformedTreatedAsEmpty ==
    storage \in {Invalid, NotArray} =>
        /\ getApiKeysCall(storage).result = "list"
        /\ getApiKeysCall(storage).rec = <<>>
        /\ \A name \in Names, environment \in Environments :
               ~IsBlank(name) =>
                   LET o == CreateCall(name, environment, TRUE)
                   IN o.result = "record" /\ loadKeys(o.storage) = o.rec
        /\ \A id \in CallIds :
               /\ revokeApiKey(storage, id, TRUE).result = "false"
               /\ RegenerateCall(id, TRUE).result = "null"
               /\ deleteApiKey(storage, id, TRUE).result = "false"

\* C14: once the api_keys entry has been removed, getApiKeys() returns the
\* empty list without error, and a page that mounts or receives the storage
\* event then shows its empty state, in either environment mode.
ExternalRemoval ==
    [][storage'.state = "absent" =>
          /\ getApiKeysCall(storage').result = "list"
          /\ getApiKeysCall(storage').rec = <<>>
          /\ \A t \in PageTabs :
                 (MountKeysPage(t) \/ StorageEvent(t)) =>
                     \A mode \in Environments : showsEmptyState(view'[t], mode)]_vars


\* C15: whenever the page's delete action removes a record, that record is
\* revoked in the persisted collection at the moment deleteApiKey is applied,
\* whatever the tabs have done in between.
DeleteGatedByRevocation ==
    [][\A t \in PageTabs :
          handleDeleteConfirm(t) =>
              \A id \in deletedIds' \ deletedIds :
                  Stored[FindIndex(Stored, id)].revoked]_vars


\* A step of one of the four mutating store operations, in any tab.
StoreStep ==
    \E t \in Tabs :
        CreateApiKey(t) \/ RevokeApiKey(t) \/ RegenerateApiKey(t) \/ DeleteApiKey(t)

KeepsIdentity(o, removed) ==
    LET after == loadKeys(o.storage)
    IN \A i \in 1..Len(Stored) :
           LET j == FindIndex(after, Stored[i].id)
           IN IF j = 0 THEN Stored[i].id \in removed
              ELSE /\ after[j].name = Stored[i].name
                   /\ after[j].environment = Stored[i].environment

\* C17: createApiKey, revokeApiKey and regenerateApiKey keep every stored
\* record under its id, deleteApiKey keeps every record but the one of the
\* given id, and each record kept has the name and the environment it had
\* before the call.
Immutability ==
    \A writeOk \in BOOLEAN :
        /\ \A name \in Names, environment \in Environments :
               KeepsIdentity(CreateCall(name, environment, writeOk), {})
        /\ \A id \in CallIds :
               /\ KeepsIdentity(revokeApiKey(storage, id, writeOk), {})
               /\ KeepsIdentity(RegenerateCall(id, writeOk), {})
               /\ KeepsIdentity(deleteApiKey(storage, id, writeOk), {id})

\* A record of each environment has been regenerated, and one of them
\* revoked afterwards.
ImmutabilityWitness ==
    /\ \E i, j \in 1..Len(Stored) :
           /\ Stored[i].environment = "test" /\ Stored[i].createdAt >= 1
           /\ Stored[j].environment = "production" /\ Stored[j].createdAt >= 1
           /\ Stored[i].id \in SeedIds /\ Stored[j].id \in SeedIds
           /\ Stored[j].revoked


Stars == <<"*", "*", "*", "*", "*", "*", "*", "*">>

\* The result the mask format gives for key when the placeholder is for keys
\* shorter than shortest: out is the result maskApiKey returned.
HasMaskFormat(key, out, shortest) ==
    LET parts == Split(key)
    IN /\ out = Stars <=> Len(key) < shortest
       /\ (Len(key) >= shortest /\ Len(parts) >= 3) =>
              out = parts[1] \o <<"_">> \o parts[2] \o <<"_">> \o Stars
                        \o SliceLast(parts[3], 4)
       /\ (Len(key) >= shortest /\ Len(parts) < 3) =>
              out = Stars \o SliceLast(key, 4)

\* C18 as stated: maskApiKey(key) is the full-mask placeholder exactly when
\* key is shorter than 4 characters; otherwise the first two segments, eight
\* mask characters and the last 4 characters of the third segment when key
\* has three segments or more, and eight mask characters and the last 4
\* characters of key when it has fewer.
MaskFormatFromFour ==
    maskOut # <<>> => \A i \in 1..2 : HasMaskFormat(maskIn[i], maskOut[i], 4)

\* C18 amended: maskApiKey(key) is the full-mask placeholder (eight mask
\* characters) exactly when key is shorter than 8 characters; otherwise the
\* first two segments, each followed by an underscore, eight mask characters
\* and the last 4 characters of the third segment (all of it when it has
\* fewer) when key has three segments or more, and eight mask characters
\* followed by the last 4 characters of key when it has fewer.
MaskFormat ==
    maskOut # <<>> => \A i \in 1..2 : HasMaskFormat(maskIn[i], maskOut[i], 8)

\* A key of 5 characters and a key of four segments have been masked.
MaskFormatWitness ==
    /\ maskOut # <<>>
    /\ maskIn[1] = Short
    /\ Len(Split(maskIn[2])) = 4


\* name is core with spaces before and after it, and core has none at its ends.
IsTrimOf(core, name) ==
    /\ core # <<>>
    /\ core[1] # " " /\ core[Len(core)] # " "
    /\ \E a, b \in 0..Len(name) :
           name = [i \in 1..a |-> " "] \o core \o [i \in 1..b |-> " "]

\* C19: createApiKey(name, environment) with a name that is not blank, the
\* write succeeding, returns a record that is not revoked, has the given
\* environment, the trimmed name, an id no stored record has and the current
\* time, and the persisted collection afterwards is the previous one with
\* that record appended.
CreateAppends ==
    \A name \in Names, environment \in Environments :
        ~IsBlank(name) =>
            LET o == CreateCall(name, environment, TRUE)
            IN /\ o.result = "record"
               /\ o.rec[1].revoked = FALSE
               /\ o.rec[1].environment = environment
               /\ IsTrimOf(o.rec[1].name, name)
               /\ o.rec[1].id \notin IdsOf(Stored)
               /\ o.rec[1].createdAt = now
               /\ loadKeys(o.storage) = Stored \o o.rec

\* A created record is the last of the collection, behind a seeded one and
\* another created one.
CreateAppendsWitness ==
    /\ Len(Stored) = MaxKeys
    /\ Stored[1].id \in SeedIds
    /\ \A i \in 2..Len(Stored) : Stored[i].id \notin SeedIds
    /\ ~Stored[Len(Stored)].revoked

\* C20: deleteApiKey(id) for the id of a stored record, revoked or not, the
\* write succeeding, returns true, and the persisted collection afterwards
\* is the previous one without that record, the others as they were and in
\* the same order.
DeleteRemovesExactly ==
    \A i \in 1..Len(Stored) :
        LET o     == deleteApiKey(storage, Stored[i].id, TRUE)
            after == loadKeys(o.storage)
        IN /\ o.result = "true"
           /\ Len(after) = Len(Stored) - 1
           /\ \A k \in 1..Len(Stored) :
                  /\ k < i => after[k] = Stored[k]
                  /\ k > i => after[k - 1] = Stored[k]

\* A record has been deleted, and of the records left one is revoked and one
\* is not.
DeleteRemovesExactlyWitness ==
    /\ deletedIds # {}
    /\ \E i, j \in 1..Len(Stored) : Stored[i].revoked /\ ~Stored[j].revoked


\* The row of the record with this id in the list the page holds, if any.
RowsOf(v, id) == SelectSeq(v.allKeys, LAMBDA key : key.id = id)

\* C21: in the tab that performs them, the list the page holds after a
\* handler has completed reflects the operation: after the create modal is
\* closed the created key, if still stored, has a row; after a confirmed
\* revoke the row of the record that became revoked shows it revoked; after
\* a confirmed delete the deleted record has no row.
OwnTabReflectsOperation ==
    [][\A t \in PageTabs :
          /\ (handleClose(t) /\ view[t].createdKey # <<>>) =>
                 \A i \in 1..Len(Stored) :
                     Stored[i].key = view[t].createdKey[1].key =>
                         RowsOf(view'[t], Stored[i].id) # <<>>
          /\ handleRevokeConfirm(t) =>
                 \A i \in 1..Len(Stored) :
                     (~Stored[i].revoked /\ loadKeys(storage')[i].revoked) =>
                         /\ RowsOf(view'[t], Stored[i].id) # <<>>
                         /\ RowsOf(view'[t], Stored[i].id)[1].revoked
          /\ handleDeleteConfirm(t) =>
                 \A id \in deletedIds' \ deletedIds :
                     RowsOf(view'[t], id) = <<>>]_vars


\* C22: initializeApiKeys never replaces a collection that is not empty:
\* when its fetch completes on a collection that holds records (created
\* since its emptiness check), it leaves the storage as it is.
InitializeOnlyWhenEmpty ==
    [][\A t \in Tabs :
          (FetchDone(t) /\ Stored # <<>>) => storage' = storage]_vars


\* C23: no stored record is newer than the clock, and regenerateApiKey(id),
\* the write succeeding, gives the record the current time as createdAt and
\* keeps its id, name and environment, so that getApiKeys() afterwards lists
\* it before every record whose createdAt is strictly older.
RegenerateMovesToFront ==
    /\ \A i \in 1..Len(Stored) : Stored[i].createdAt <= now
    /\ \A i \in 1..Len(Stored) :
           LET o    == RegenerateCall(Stored[i].id, TRUE)
               list == getApiKeys(o.storage)
               p    == FindIndex(list, Stored[i].id)
           IN /\ o.rec[1].createdAt = now
              /\ o.rec[1].id = Stored[i].id
              /\ o.rec[1].name = Stored[i].name
              /\ o.rec[1].environment = Stored[i].environment
              /\ p # 0
              /\ list[p] = o.rec[1]
              /\ \A q \in 1..Len(list) : list[q].createdAt < now => p < q

\* A seeded record regenerated at the last time of the clock is not the
\* first stored but the first listed, ahead of a record of time 1.
RegenerateMovesToFrontWitness ==
    \E i \in 2..Len(Stored) :
        /\ Stored[i].id \in SeedIds
        /\ Stored[i].createdAt = MaxTime
        /\ getApiKeys(storage)[1].id = Stored[i].id
        /\ \E j \in 1..Len(Stored) : Stored[j].createdAt = 1


\* The store call a row's confirm handler makes: revokeApiKey from a row
\* that shows the key active, deleteApiKey from a row that shows it revoked.
RowCall(apiKey, writeOk) ==
    IF apiKey.revoked THEN deleteApiKey(storage, apiKey.id, writeOk)
    ELSE revokeApiKey(storage, apiKey.id, writeOk)

\* C24: when the store call of a row's confirm handler does not succeed (it
\* returns false, or its write fails), the handler shows the failure toast,
\* does not call onUpdate, and the confirmation dialog is closed afterwards.
ConfirmFailureHandled ==
    \A t \in PageTabs :
        \A i \in 1..Len(view[t].allKeys), writeOk \in BOOLEAN, actionCloses \in BOOLEAN :
            LET o == RowCall(view[t].allKeys[i], writeOk)
                r == rowConfirm(o, actionCloses)
            IN o.result # "true" =>
                   r.toast = "error" /\ ~r.refreshed /\ ~r.dialogOpen


\* C25: once setMode(newMode) and the effects it triggers have run, mode is
\* newMode, whether or not the mode could be persisted.
SetModeTakesEffect ==
    (env.requested # "none" /\ ~env.syncPending) => env.mode = env.requested

\* C26: when the session cannot be saved (storage unavailable or the write
\* fails), login returns false and leaves the session, the stored session
\* and the expiry timer as they were: logged out, with no session and no
\* timer; and there is never a timer without a session.
LoginOnlyIfPersisted ==
    /\ auth.session = "none" => ~auth.timer
    /\ \A writeOk \in BOOLEAN :
           ~(storageAvailable /\ writeOk) =>
               LET after == login(auth, storageAvailable, writeOk)
               IN /\ after.returned = "false"
                  /\ after.session = auth.session
                  /\ after.stored = auth.stored
                  /\ after.timer = auth.timer
                  /\ auth.session = "none" => (after.session = "none" /\ ~after.timer)

\* login has returned false where nothing can be stored: there is no
\* session, no stored session and no timer.
LoginOnlyIfPersistedWitness ==
    /\ auth.returned = "false"
    /\ ~storageAvailable
    /\ auth.session = "none" /\ auth.stored = "none" /\ ~auth.timer


\* The collection after the first n recorded calls, applied one after another.
RECURSIVE Replay(_)
Replay(n) ==
    IF n = 0 THEN Seeded ELSE applyCall(Replay(n - 1), calls[n]).storage

\* A later call than the k-th, of one of ops, took effect on the record id.
Later(k, ops, id) ==
    \E j \in (k + 1)..Len(calls) :
        calls[j].ok /\ calls[j].op \in ops /\ calls[j].id = id

handleConfirm(o) ==
    IF o.result = "record"
    THEN [step |-> "reveal", error |-> "none", regeneratedKey |-> o.rec]
    ELSE [step |-> "confirm",
          error |-> IF o.result = "null" THEN "Failed to regenerate key" ELSE o.error,
          regeneratedKey |-> <<>>]

\* C28: a revoke or a regenerate never adds a record to the persisted
\* collection; and for a record that has been deleted (it is not stored) and
\* that the page of another tab still shows, revokeApiKey returns false and
\* regenerateApiKey returns null, neither writes nor changes the persisted
\* collection, and the regenerate modal stays on its confirm step with an
\* error and no new secret.
DeletedNotBroughtBack ==
    /\ \A id \in CallIds, writeOk \in BOOLEAN :
           /\ IdsOf(loadKeys(revokeApiKey(storage, id, writeOk).storage)) \subseteq IdsOf(Stored)
           /\ IdsOf(loadKeys(RegenerateCall(id, writeOk).storage)) \subseteq IdsOf(Stored)
    /\ \A t \in PageTabs :
           \A i \in 1..Len(view[t].allKeys), writeOk \in BOOLEAN :
               LET id == view[t].allKeys[i].id
                   r  == revokeApiKey(storage, id, writeOk)
                   g  == RegenerateCall(id, writeOk)
                   m  == handleConfirm(g)
               IN (id \in deletedIds /\ id \notin IdsOf(Stored)) =>
                     /\ r.result = "false" /\ g.result = "null"
                     /\ r.write = "none" /\ g.write = "none"
                     /\ r.storage = storage /\ g.storage = storage
                     /\ m.step = "confirm" /\ m.error # "none" /\ m.regeneratedKey = <<>>

\* The page shows a row, not revoked, of a record that has been deleted and
\* is not stored, while other records are stored.
DeletedNotBroughtBackWitness ==
    \E t \in PageTabs :
        \E i \in 1..Len(view[t].allKeys) :
            /\ view[t].allKeys[i].id \in deletedIds
            /\ view[t].allKeys[i].id \notin IdsOf(Stored)
            /\ ~view[t].allKeys[i].revoked
            /\ Stored # <<>>


\* C29: the rows shown depend on a secret only through its masked form: for
\* two collections that differ only in a secret, with the same maskApiKey
\* result, the table has the same rows for the query in the search box.
SearchSeesOnlyMask ==
    maskApiKey(maskIn[1]) = maskApiKey(maskIn[2]) => search.rows[1] = search.rows[2]

====
